---- MODULE Spec2Model ----
(***************************************************************************)
(* Rules engine of src/chess.py: board, per-piece move generation, the     *)
(* attack/check oracle, the selection/commit/undo/restart handlers of      *)
(* main(), promotion and checkmate search.                                 *)
(*                                                                         *)
(* A piece is a record with the fields of class Piece (name, color, row,   *)
(* col, has_moved); the integer 0 that marks an empty square is the record *)
(* Zero, and None is the record NoPiece / the empty tuple.  A Python list  *)
(* is a sequence, in the order the code builds it.                         *)
(***************************************************************************)
EXTENDS Integers, Sequences, FiniteSets, TLC

ROWS == 8
COLS == 8

RowIdx == 0 .. (ROWS - 1)
ColIdx == 0 .. (COLS - 1)

\* The value 0 of an empty board square.
Zero == [name |-> "0", color |-> "-", row |-> 0, col |-> 0, has_moved |-> FALSE]

\* None, as the value of selected_piece.
NoPiece == [name |-> "None", color |-> "-", row |-> 0, col |-> 0, has_moved |-> FALSE]

\* None, as the value of en_passant_target.
NoTarget == << >>

\* Piece.__init__
Piece(name, row, col, color) ==
    [name |-> name, color |-> color, row |-> row, col |-> col, has_moved |-> FALSE]

Abs(x) == IF x < 0 THEN -x ELSE x

OnBoard(row, col) == 0 <= row /\ row < ROWS /\ 0 <= col /\ col < COLS

\* F applied to the value of x, with x evaluated once.
Let(x, F(_)) == CHOOSE y \in {F(v) : v \in {x}} : TRUE

\* `x in list`
InList(x, list) == \E l \in {list} : \E i \in 1 .. Len(l) : l[i] = x

opponent(color) == IF color = "w" THEN "b" ELSE "w"

(***************************************************************************)
(* Piece move generation                                                   *)
(***************************************************************************)

get_pawn_moves(self, board, en_passant_target) ==
    LET direction == IF self.color = "w" THEN -1 ELSE 1
        start_row == IF self.color = "w" THEN 6 ELSE 1
        new_row == self.row + direction
        new_row_two == new_row + direction
        forward ==
            IF 0 <= new_row /\ new_row < ROWS /\ board[new_row][self.col] = Zero
            THEN << << new_row, self.col >> >> \o
                 (IF self.row = start_row /\ 0 <= new_row_two /\ new_row_two < ROWS
                     /\ board[new_row_two][self.col] = Zero
                  THEN << << new_row_two, self.col >> >> ELSE << >>)
            ELSE << >>
        diagonal(new_col) ==
            IF 0 <= new_col /\ new_col < COLS /\ 0 <= new_row /\ new_row < ROWS
            THEN (IF board[new_row][new_col] # Zero
                     /\ board[new_row][new_col].color # self.color
                  THEN << << new_row, new_col >> >> ELSE << >>) \o
                 (IF en_passant_target = << new_row, new_col >>
                  THEN << << new_row, new_col >> >> ELSE << >>)
            ELSE << >>
    IN forward \o diagonal(self.col - 1) \o diagonal(self.col + 1)

\* The while loop of get_rook_moves / get_bishop_moves for one direction.
RECURSIVE slide(_, _, _, _, _, _)
slide(board, color, row, col, dr, dc) ==
    IF ~OnBoard(row, col) THEN << >>
    ELSE IF board[row][col] = Zero
         THEN << << row, col >> >> \o slide(board, color, row + dr, col + dc, dr, dc)
         ELSE IF board[row][col].color # color THEN << << row, col >> >> ELSE << >>

\* One iteration of `for d in directions`.
ray(self, board, dr, dc) ==
    slide(board, self.color, self.row + dr, self.col + dc, dr, dc)

get_rook_moves(self, board) ==
    ray(self, board, -1, 0) \o ray(self, board, 1, 0) \o
    ray(self, board, 0, -1) \o ray(self, board, 0, 1)

get_bishop_moves(self, board) ==
    ray(self, board, -1, -1) \o ray(self, board, -1, 1) \o
    ray(self, board, 1, -1) \o ray(self, board, 1, 1)

get_queen_moves(self, board) == get_rook_moves(self, board) \o get_bishop_moves(self, board)

\* One iteration of `for offset in move_offsets`.
knight_jump(self, board, dr, dc) ==
    IF OnBoard(self.row + dr, self.col + dc)
       /\ (board[self.row + dr][self.col + dc] = Zero
           \/ board[self.row + dr][self.col + dc].color # self.color)
    THEN << << self.row + dr, self.col + dc >> >> ELSE << >>

get_knight_moves(self, board) ==
    knight_jump(self, board, -2, -1) \o knight_jump(self, board, -2, 1) \o
    knight_jump(self, board, -1, -2) \o knight_jump(self, board, -1, 2) \o
    knight_jump(self, board, 1, -2) \o knight_jump(self, board, 1, 2) \o
    knight_jump(self, board, 2, -1) \o knight_jump(self, board, 2, 1)

\* get_valid_moves of a piece that is not a king (the only pieces the attack
\* oracle asks): the dispatch of Piece.get_valid_moves without its king branch.
non_king_moves(self, board, en_passant_target) ==
    CASE self.name = "p" -> get_pawn_moves(self, board, en_passant_target)
      [] self.name = "r" -> get_rook_moves(self, board)
      [] self.name = "n" -> get_knight_moves(self, board)
      [] self.name = "b" -> get_bishop_moves(self, board)
      [] self.name = "q" -> get_queen_moves(self, board)
      [] OTHER -> << >>

(***************************************************************************)
(* Attack / check oracle                                                   *)
(***************************************************************************)

\* The loop shared by is_square_under_attack and is_in_check: some opposing
\* piece other than the king lists `square` among get_valid_moves(board)
\* (no en-passant target is passed).
in_opponent_moves(board, square, color) ==
    \E r \in RowIdx, c \in ColIdx :
        /\ board[r][c] # Zero
        /\ board[r][c].color = opponent(color)
        /\ board[r][c].name # "k"
        /\ InList(square, non_king_moves(board[r][c], board, NoTarget))

is_square_under_attack(board, square, color) ==
    \E b \in {board} : in_opponent_moves(b, square, color)

\* The king position is read from the king object's own row/col fields; with
\* the inner `break` only, the king of the last row that holds one is used.
is_in_check(board, color) ==
    \E b \in {board} : \E r \in RowIdx, c \in ColIdx :
        /\ b[r][c].name = "k" /\ b[r][c].color = color
        /\ ~\E r2 \in RowIdx, c2 \in ColIdx :
               /\ b[r2][c2].name = "k" /\ b[r2][c2].color = color
               /\ (r2 > r \/ (r2 = r /\ c2 < c))
        /\ in_opponent_moves(b, << b[r][c].row, b[r][c].col >>, color)

\* A kingside test whose emptiness loop runs one column too far (5 .. 7).
can_castle_kingside_range_5_8(board, color) ==
    LET row == IF color = "w" THEN 7 ELSE 0
        rook == board[row][7]
    IN IF rook = Zero \/ rook.name # "r" \/ rook.color # color \/ rook.has_moved
       THEN FALSE
       ELSE IF \E col \in 5 .. 7 : board[row][col] # Zero THEN FALSE
       ELSE IF \E col \in 4 .. 6 : is_square_under_attack(board, << row, col >>, color)
            THEN FALSE
       ELSE TRUE

can_castle_kingside(board, color) ==
    LET row == IF color = "w" THEN 7 ELSE 0
        rook == board[row][7]
    IN IF rook = Zero \/ rook.name # "r" \/ rook.color # color \/ rook.has_moved
       THEN FALSE
       ELSE IF \E col \in 5 .. 6 : board[row][col] # Zero THEN FALSE
       ELSE IF \E col \in 4 .. 6 : is_square_under_attack(board, << row, col >>, color)
            THEN FALSE
       ELSE TRUE

can_castle_queenside(board, color) ==
    LET row == IF color = "w" THEN 7 ELSE 0
        rook == board[row][0]
    IN IF rook = Zero \/ rook.name # "r" \/ rook.color # color \/ rook.has_moved
       THEN FALSE
       ELSE IF \E col \in 1 .. 3 : board[row][col] # Zero THEN FALSE
       ELSE IF \E col \in 2 .. 4 : is_square_under_attack(board, << row, col >>, color)
            THEN FALSE
       ELSE TRUE

\* One iteration of `for d in directions` of get_king_moves.  The king object
\* stays on its board square while its row/col fields are set to the
\* candidate square; is_in_check then reads those fields.
king_step(self, board, dr, dc) ==
    IF OnBoard(self.row + dr, self.col + dc)
       /\ (board[self.row + dr][self.col + dc] = Zero
           \/ board[self.row + dr][self.col + dc].color # self.color)
       /\ ~is_in_check([board EXCEPT ![self.row][self.col] =
                           [self EXCEPT !.row = self.row + dr, !.col = self.col + dc]],
                       self.color)
    THEN << << self.row + dr, self.col + dc >> >> ELSE << >>

get_king_moves(self, board) ==
    king_step(self, board, -1, -1) \o king_step(self, board, -1, 0) \o
    king_step(self, board, -1, 1) \o king_step(self, board, 0, -1) \o
    king_step(self, board, 0, 1) \o king_step(self, board, 1, -1) \o
    king_step(self, board, 1, 0) \o king_step(self, board, 1, 1) \o
    (IF ~self.has_moved /\ ~is_in_check(board, self.color)
     THEN (IF can_castle_kingside(board, self.color)
           THEN << << self.row, self.col + 2 >> >> ELSE << >>) \o
          (IF can_castle_queenside(board, self.color)
           THEN << << self.row, self.col - 2 >> >> ELSE << >>)
     ELSE << >>)

get_valid_moves(self, board, en_passant_target) ==
    IF self.name = "k" THEN get_king_moves(self, board)
    ELSE non_king_moves(self, board, en_passant_target)

create_board ==
    LET back == << "r", "n", "b", "q", "k", "b", "n", "r" >>
    IN [row \in RowIdx |-> [col \in ColIdx |->
          CASE row = 0 -> Piece(back[col + 1], 0, col, "b")
            [] row = 1 -> Piece("p", 1, col, "b")
            [] row = 6 -> Piece("p", 6, col, "w")
            [] row = 7 -> Piece(back[col + 1], 7, col, "w")
            [] OTHER -> Zero]]

(***************************************************************************)
(* Legality filter, win condition, checkmate search                        *)
(***************************************************************************)

\* The scratch board of move_puts_king_in_check and is_checkmate: the piece
\* is lifted from its square and put on `move` with its row/col fields set.
scratch_move(board, piece, move) ==
    [[board EXCEPT ![piece.row][piece.col] = Zero]
        EXCEPT ![move[1]][move[2]] =
            [board[piece.row][piece.col] EXCEPT !.row = move[1], !.col = move[2]]]

move_puts_king_in_check(board, piece, move, color) ==
    is_in_check(scratch_move(board, piece, move), color)

\* A win test that looks for the black king only.
check_win_condition_black_king_only(board) ==
    IF ~\E r \in RowIdx, c \in ColIdx :
            board[r][c].name = "k" /\ board[r][c].color = "b"
    THEN << TRUE, "w" >>
    ELSE << FALSE, "None" >>

check_win_condition(board) ==
    IF ~\E r \in RowIdx, c \in ColIdx :
            board[r][c].name = "k" /\ board[r][c].color = "w"
    THEN << TRUE, "b" >>
    ELSE IF ~\E r \in RowIdx, c \in ColIdx :
                 board[r][c].name = "k" /\ board[r][c].color = "b"
         THEN << TRUE, "w" >>
         ELSE << FALSE, "None" >>

\* Lines 1113-1126 on the scratch board `moved`: the piece in the corner of
\* the king's row is put beside the king.
scratch_castle(moved, row, corner, beside) ==
    [moved EXCEPT ![row][corner] = Zero,
                  ![row][beside] = [moved[row][corner] EXCEPT !.row = row, !.col = beside]]

\* One (piece, move) iteration of is_checkmate's loop body:
\*   "escape" - the scratch board is not in check (return False),
\*   "check"  - still in check (the loop goes on),
\*   "fault"  - rook.row is assigned on the integer 0 (AttributeError).
checkmate_try(board, piece, move, color) ==
    Let(scratch_move(board, piece, move), LAMBDA moved :
        IF piece.name = "k" /\ Abs(move[2] - 4) = 2
        THEN IF moved[move[1]][IF move[2] - 4 = 2 THEN 7 ELSE 0] = Zero
             THEN "fault"
             ELSE IF ~is_in_check(scratch_castle(moved, move[1],
                                      IF move[2] - 4 = 2 THEN 7 ELSE 0,
                                      IF move[2] - 4 = 2 THEN 5 ELSE 3), color)
                  THEN "escape" ELSE "check"
        ELSE IF ~is_in_check(moved, color) THEN "escape" ELSE "check")

\* `for move in moves` from index j on: the first result that is not "check".
RECURSIVE try_moves(_, _, _, _, _)
try_moves(board, piece, moves, j, color) ==
    IF j > Len(moves) THEN "check"
    ELSE Let(checkmate_try(board, piece, moves[j], color), LAMBDA result :
             IF result = "check" THEN try_moves(board, piece, moves, j + 1, color)
             ELSE result)

\* The squares of the pieces of `color`, in the order of
\* `for row in board: for piece in row`.
squares_in_order(board, color) ==
    SelectSeq([i \in 1 .. ROWS * COLS |-> << (i - 1) \div COLS, (i - 1) % COLS >>],
              LAMBDA sq : board[sq[1]][sq[2]] # Zero /\ board[sq[1]][sq[2]].color = color)

\* The piece loop of is_checkmate from index i on.
RECURSIVE try_pieces(_, _, _, _)
try_pieces(board, squares, i, color) ==
    IF i > Len(squares) THEN "yes"
    ELSE Let(Let(get_valid_moves(board[squares[i][1]][squares[i][2]], board, NoTarget),
                 LAMBDA moves :
                     try_moves(board, board[squares[i][1]][squares[i][2]], moves, 1, color)),
             LAMBDA result :
                 IF result = "check" THEN try_pieces(board, squares, i + 1, color)
                 ELSE IF result = "escape" THEN "no" ELSE "fault")

\* "yes" (return True), "no" (return False) or "fault".
\* A checkmate search whose guard answers True for a king that is not in
\* check.
is_checkmate_guard_returns_true(board, color) ==
    IF ~is_in_check(board, color) THEN "yes"
    ELSE Let(board, LAMBDA b :
             Let(squares_in_order(b, color), LAMBDA squares :
                 try_pieces(b, squares, 1, color)))

is_checkmate(board, color) ==
    IF ~is_in_check(board, color) THEN "no"
    ELSE Let(board, LAMBDA b :
             Let(squares_in_order(b, color), LAMBDA squares :
                 try_pieces(b, squares, 1, color)))

(***************************************************************************)
(* State of main()                                                         *)
(***************************************************************************)

VARIABLES
    board,              \* board[row][col]: a piece or Zero
    turn,               \* "w" or "b"
    en_passant_target,  \* << row, col >> or NoTarget
    move_history,       \* list of move records and notices
    captured_white,
    captured_black,
    move_stack,         \* undo frames
    selected_piece,     \* the selected piece (a board object) or NoPiece
    valid_moves,        \* destinations offered for selected_piece
    game_over,
    winner,             \* "w", "b" or "None"
    pc,                 \* "main": event loop of main(); "promote": inside
                        \* promote_pawn(); "crashed": uncaught exception
    last_event          \* the event taken from the queue last: its kind and,
                        \* for a click on the board, the square under the mouse

vars == << board, turn, en_passant_target, move_history, captured_white,
           captured_black, move_stack, selected_piece, valid_moves, game_over,
           winner, pc, last_event >>

game == << board, turn, en_passant_target, move_history, captured_white,
           captured_black, move_stack, selected_piece, valid_moves, game_over,
           winner, pc >>

event(kind, row, col) == [kind |-> kind, row |-> row, col |-> col]

\* The tuple main() saves for undo.
frame == << board, turn, en_passant_target, move_history, captured_white,
            captured_black >>

Init ==
    /\ board = create_board
    /\ turn = "w"
    /\ en_passant_target = NoTarget
    /\ move_history = << >>
    /\ captured_white = << >>
    /\ captured_black = << >>
    /\ move_stack = << >>
    /\ selected_piece = NoPiece
    /\ valid_moves = << >>
    /\ game_over = FALSE
    /\ winner = "None"
    /\ pc = "main"
    /\ last_event = event("none", -1, -1)

(***************************************************************************)
(* Commit: the body of `if (row, col) in valid_moves` in main()            *)
(***************************************************************************)

\* captured_white / captured_black after `captured_piece` is taken.
captured_after(captured_piece, lists) ==
    IF captured_piece.color = "w"
    THEN << Append(lists[1], captured_piece.name \o "p"), lists[2] >>
    ELSE << lists[1], Append(lists[2], captured_piece.name \o "p") >>

\* A move that leaves the moved piece's row and col fields as they were.
apply_move_keeps_coordinates(b0, piece, row, col, target, lists0) ==
    LET is_ep == piece.name = "p" /\ << row, col >> = target
        ep_victim == b0[piece.row][col]
        b1 == IF is_ep THEN [b0 EXCEPT ![piece.row][col] = Zero] ELSE b0
        lists1 == IF is_ep /\ ep_victim # Zero
                  THEN captured_after(ep_victim, lists0) ELSE lists0
        b2 == [b1 EXCEPT ![piece.row][piece.col] = Zero]
        captured_piece == b2[row][col]
        lists2 == IF captured_piece # Zero
                  THEN captured_after(captured_piece, lists1) ELSE lists1
        moved == [piece EXCEPT !.has_moved = TRUE]
        b3 == [b2 EXCEPT ![row][col] = moved]
        is_castle == piece.name = "k" /\ Abs(col - 4) = 2
        corner == IF col - 4 = 2 THEN 7 ELSE 0
        beside == IF col - 4 = 2 THEN 5 ELSE 3
        rook == b3[row][corner]
        b4 == [b3 EXCEPT ![row][corner] = Zero,
                         ![row][beside] =
                             IF rook = Zero THEN Zero
                             ELSE [rook EXCEPT !.row = row, !.col = beside,
                                               !.has_moved = TRUE]]
    IN IF is_ep /\ ep_victim = Zero
       THEN [board |-> b1, piece |-> piece, lists |-> lists0, fault |-> TRUE]
       ELSE IF is_castle
            THEN [board |-> b4, piece |-> moved, lists |-> lists2,
                  fault |-> (rook = Zero)]
            ELSE [board |-> b3, piece |-> moved, lists |-> lists2, fault |-> FALSE]

\* Lines 963-1003: en-passant capture, the move itself, the castling rook.
\* Yields the board, the moved piece, both captured lists and whether an
\* attribute of the integer 0 was used (fault), with the board as mutated up
\* to that statement.
apply_move(b0, piece, row, col, target, lists0) ==
    LET is_ep == piece.name = "p" /\ << row, col >> = target
        ep_victim == b0[piece.row][col]
        b1 == IF is_ep THEN [b0 EXCEPT ![piece.row][col] = Zero] ELSE b0
        lists1 == IF is_ep /\ ep_victim # Zero
                  THEN captured_after(ep_victim, lists0) ELSE lists0
        b2 == [b1 EXCEPT ![piece.row][piece.col] = Zero]
        captured_piece == b2[row][col]
        lists2 == IF captured_piece # Zero
                  THEN captured_after(captured_piece, lists1) ELSE lists1
        moved == [piece EXCEPT !.row = row, !.col = col, !.has_moved = TRUE]
        b3 == [b2 EXCEPT ![row][col] = moved]
        is_castle == piece.name = "k" /\ Abs(col - 4) = 2
        corner == IF col - 4 = 2 THEN 7 ELSE 0
        beside == IF col - 4 = 2 THEN 5 ELSE 3
        rook == b3[row][corner]
        b4 == [b3 EXCEPT ![row][corner] = Zero,
                         ![row][beside] =
                             IF rook = Zero THEN Zero
                             ELSE [rook EXCEPT !.row = row, !.col = beside,
                                               !.has_moved = TRUE]]
    IN IF is_ep /\ ep_victim = Zero
       THEN [board |-> b1, piece |-> piece, lists |-> lists0, fault |-> TRUE]
       ELSE IF is_castle
            THEN [board |-> b4, piece |-> moved, lists |-> lists2,
                  fault |-> (rook = Zero)]
            ELSE [board |-> b3, piece |-> moved, lists |-> lists2, fault |-> FALSE]

\* Lines 1010-1014, evaluated after the piece's row/col were set to (row, col).
next_en_passant_target(piece, row, col) ==
    LET behind == piece.row - (IF piece.color = "w" THEN -1 ELSE 1)
    IN IF piece.name = "p" /\ Abs(row - behind) = 2
       THEN << (row + behind) \div 2, col >>
       ELSE NoTarget

upper(name) ==
    CASE name = "p" -> "P" [] name = "r" -> "R" [] name = "n" -> "N"
      [] name = "b" -> "B" [] name = "q" -> "Q" [] name = "k" -> "K"
      [] OTHER -> name

side_name(color) == IF color = "w" THEN "White" ELSE "Black"

\* The fields formatted into move_san (lines 1017-1018).
move_record(history, side, piece, row, col) ==
    [number |-> (Len(history) \div 2) + 1, side |-> side_name(side),
     kind |-> upper(piece.name), from |-> << piece.row, piece.col >>,
     to |-> << row, col >>]

notice(text, color) == [notice |-> text, side |-> side_name(color)]

\* Lines 1010-1045: en-passant target, move record, win condition, check,
\* checkmate, turn switch and deselection, on board b with moved piece.
FinishCommit(b, piece, lists) ==
    \E row \in {piece.row}, col \in {piece.col},
       history1 \in {Append(move_history,
                            move_record(move_history, turn, piece, piece.row, piece.col))},
       win \in {check_win_condition(b)},
       opponent_color \in {opponent(turn)} :
    \E in_check \in {is_in_check(b, opponent_color)},
       mate \in {IF win[1] THEN "no" ELSE is_checkmate(b, opponent_color)},
       mate_winner \in {IF opponent_color = "b" THEN "w" ELSE "b"} :
    \E history2 \in {IF in_check
                     THEN Append(history1, notice("is in Check!", opponent_color))
                     ELSE history1} :
       /\ board' = b
       /\ captured_white' = lists[1]
       /\ captured_black' = lists[2]
       /\ en_passant_target' = next_en_passant_target(piece, row, col)
       /\ IF win[1]
          THEN /\ game_over' = TRUE
               /\ winner' = win[2]
               /\ move_history' =
                      Append(history1, notice("wins by capturing the king!", win[2]))
               /\ turn' = turn
               /\ selected_piece' = NoPiece
               /\ valid_moves' = << >>
               /\ pc' = "main"
          ELSE IF mate = "fault"
          THEN /\ game_over' = FALSE
               /\ winner' = "None"
               /\ move_history' = history2
               /\ turn' = turn
               /\ selected_piece' = piece
               /\ valid_moves' = valid_moves
               /\ pc' = "crashed"
          ELSE /\ game_over' = (mate = "yes")
               /\ winner' = IF mate = "yes" THEN mate_winner ELSE "None"
               /\ move_history' =
                      IF mate = "yes"
                      THEN Append(history2, notice("wins by Checkmate!", mate_winner))
                      ELSE history2
               /\ turn' = IF turn = "w" THEN "b" ELSE "w"
               /\ selected_piece' = NoPiece
               /\ valid_moves' = << >>
               /\ pc' = "main"

\* A pawn that never promotes on row ROWS - 1.
is_promotion_row_0_only(piece, row) == piece.name = "p" /\ row = 0

\* Line 1006: the moved piece is a pawn on the first or the last row.
is_promotion(piece, row) == piece.name = "p" /\ (row = 0 \/ row = ROWS - 1)

Commit(row, col) ==
    \E done \in {apply_move(board, selected_piece, row, col, en_passant_target,
                            << captured_white, captured_black >>)} :
       /\ move_stack' = Append(move_stack, frame)
       /\ IF done.fault
          THEN /\ board' = done.board
               /\ captured_white' = done.lists[1]
               /\ captured_black' = done.lists[2]
               /\ selected_piece' = done.piece
               /\ pc' = "crashed"
               /\ UNCHANGED << turn, en_passant_target, move_history, valid_moves,
                               game_over, winner >>
          ELSE IF is_promotion(done.piece, row)
          THEN \* promote_pawn() takes over the event queue
               /\ board' = done.board
               /\ captured_white' = done.lists[1]
               /\ captured_black' = done.lists[2]
               /\ selected_piece' = done.piece
               /\ pc' = "promote"
               /\ UNCHANGED << turn, en_passant_target, move_history, valid_moves,
                               game_over, winner >>
          ELSE FinishCommit(done.board, done.piece, done.lists)

(***************************************************************************)
(* Event handlers of main() and promote_pawn()                             *)
(***************************************************************************)

\* [move for move in piece.get_valid_moves(board, en_passant_target)
\*       if not move_puts_king_in_check(board, piece, move, turn)]
legal_moves(piece) ==
    SelectSeq(get_valid_moves(piece, board, en_passant_target),
              LAMBDA move : ~move_puts_king_in_check(board, piece, move, turn))

\* Lines 1055-1063: a click with nothing selected.
first_selection(piece) ==
    IF is_in_check(board, turn) THEN legal_moves(piece)
    ELSE get_valid_moves(piece, board, en_passant_target)

\* A rejected destination after the undo frame was already pushed.
reselect_after_push(piece) ==
    /\ IF piece # Zero /\ piece.color = turn
       THEN /\ selected_piece' = piece
            /\ valid_moves' = legal_moves(piece)
       ELSE /\ selected_piece' = NoPiece
            /\ valid_moves' = << >>
    /\ move_stack' = Append(move_stack, frame)
    /\ UNCHANGED << board, turn, en_passant_target, move_history,
                    captured_white, captured_black, game_over, winner, pc >>

\* Lines 1046-1054: the clicked square is not an offered destination; select
\* the piece on it if it is the mover's, else drop the selection.
reselect(piece) ==
    /\ IF piece # Zero /\ piece.color = turn
       THEN /\ selected_piece' = piece
            /\ valid_moves' = legal_moves(piece)
       ELSE /\ selected_piece' = NoPiece
            /\ valid_moves' = << >>
    /\ UNCHANGED << board, turn, en_passant_target, move_history,
                    captured_white, captured_black, move_stack,
                    game_over, winner, pc >>

\* Lines 957-1063: a click on square (row, col) while the game is running.
\* Commits are explored while the undo stack holds fewer than `limit` frames.
board_click(row, col, limit) ==
    LET piece == board[row][col] IN
    IF selected_piece # NoPiece
    THEN IF InList(<< row, col >>, valid_moves)
         THEN Len(move_stack) < limit /\ Commit(row, col)
         ELSE reselect(piece)
    ELSE /\ IF piece # Zero /\ piece.color = turn
            THEN /\ valid_moves' = first_selection(piece)
                 /\ selected_piece' = piece
            ELSE UNCHANGED << selected_piece, valid_moves >>
         /\ UNCHANGED << board, turn, en_passant_target, move_history,
                         captured_white, captured_black, move_stack,
                         game_over, winner, pc >>

\* A click handler that is not guarded by `not game_over`.
Click_while_game_over(row, col, limit) ==
    /\ pc = "main"
    /\ last_event' = event("click", row, col)
    /\ board_click(row, col, limit)

\* MOUSEBUTTONDOWN on board square (row, col), lines 941-1063: handled only
\* while `not game_over`.
Click(row, col, limit) ==
    /\ pc = "main"
    /\ last_event' = event("click", row, col)
    /\ IF game_over THEN UNCHANGED game ELSE board_click(row, col, limit)

\* An undo that leaves both captured lists as they are.
undo_keeps_captured ==
    IF move_stack # << >>
    THEN LET previous_state == move_stack[Len(move_stack)] IN
         /\ move_stack' = SubSeq(move_stack, 1, Len(move_stack) - 1)
         /\ board' = previous_state[1]
         /\ turn' = previous_state[2]
         /\ en_passant_target' = previous_state[3]
         /\ move_history' = previous_state[4]
         /\ UNCHANGED << captured_white, captured_black >>
         /\ selected_piece' = NoPiece
         /\ valid_moves' = << >>
         /\ game_over' = FALSE
         /\ winner' = "None"
         /\ pc' = pc
    ELSE UNCHANGED game

\* Lines 948-954 and 1068-1074: pop the last frame and restore it.
undo ==
    IF move_stack # << >>
    THEN LET previous_state == move_stack[Len(move_stack)] IN
         /\ move_stack' = SubSeq(move_stack, 1, Len(move_stack) - 1)
         /\ board' = previous_state[1]
         /\ turn' = previous_state[2]
         /\ en_passant_target' = previous_state[3]
         /\ move_history' = previous_state[4]
         /\ captured_white' = previous_state[5]
         /\ captured_black' = previous_state[6]
         /\ selected_piece' = NoPiece
         /\ valid_moves' = << >>
         /\ game_over' = FALSE
         /\ winner' = "None"
         /\ pc' = pc
    ELSE UNCHANGED game

\* MOUSEBUTTONDOWN on the Undo button (lines 941, 946-955).
ClickUndoButton ==
    /\ pc = "main"
    /\ last_event' = event("undo_button", -1, -1)
    /\ IF game_over THEN UNCHANGED game ELSE undo

\* KEYDOWN K_u (lines 1065-1074).
KeyU ==
    /\ pc = "main"
    /\ last_event' = event("key_u", -1, -1)
    /\ undo

\* A restart that keeps the undo stack.
KeyR_keeps_move_stack ==
    /\ pc = "main"
    /\ last_event' = event("key_r", -1, -1)
    /\ board' = create_board
    /\ move_history' = << >>
    /\ captured_white' = << >>
    /\ captured_black' = << >>
    /\ move_stack' = move_stack
    /\ selected_piece' = NoPiece
    /\ valid_moves' = << >>
    /\ turn' = "w"
    /\ game_over' = FALSE
    /\ winner' = "None"
    /\ en_passant_target' = NoTarget
    /\ pc' = pc

\* KEYDOWN K_r in the main loop (lines 1076-1088).
KeyR ==
    /\ pc = "main"
    /\ last_event' = event("key_r", -1, -1)
    /\ board' = create_board
    /\ move_history' = << >>
    /\ captured_white' = << >>
    /\ captured_black' = << >>
    /\ move_stack' = << >>
    /\ selected_piece' = NoPiece
    /\ valid_moves' = << >>
    /\ turn' = "w"
    /\ game_over' = FALSE
    /\ winner' = "None"
    /\ en_passant_target' = NoTarget
    /\ pc' = pc

PromotionKeys == {"q", "r", "b", "n"}

\* promote_pawn() returns on K_q / K_r / K_b / K_n (lines 843-870); main()
\* then puts the new piece on the board and goes on from line 1008.
PromoteKey(choice) ==
    /\ pc = "promote"
    /\ last_event' = event("key_" \o choice, -1, -1)
    /\ move_stack' = move_stack
    /\ \E promoted \in {Piece(choice, selected_piece.row, selected_piece.col,
                               selected_piece.color)} :
       \E b \in {[board EXCEPT ![promoted.row][promoted.col] = promoted]} :
          FinishCommit(b, promoted, << captured_white, captured_black >>)

\* A promote_pawn() that any event ends, with the default choice 'q' of
\* line 841.
PromoteOtherEvent_ends_wait(kind) ==
    /\ pc = "promote"
    /\ last_event' = event(kind, -1, -1)
    /\ move_stack' = move_stack
    /\ \E promoted \in {Piece("q", selected_piece.row, selected_piece.col,
                               selected_piece.color)} :
       \E b \in {[board EXCEPT ![promoted.row][promoted.col] = promoted]} :
          FinishCommit(b, promoted, << captured_white, captured_black >>)

\* Any other event is taken from the queue by promote_pawn() and dropped.
PromoteOtherEvent(kind) ==
    /\ pc = "promote"
    /\ last_event' = event(kind, -1, -1)
    /\ UNCHANGED game

OtherEvents == {"click", "undo_button", "key_u"}

\* A move is << from row, from col, to row, to col >>.
squares_of(moves) ==
    {<< m[1], m[2] >> : m \in moves} \cup {<< m[3], m[4] >> : m \in moves}

any_move(squares) == {<< a[1], a[2], b[1], b[2] >> : a \in squares, b \in squares}

\* The events of the main loop.  The players click on the squares of `moves`
\* and commit only moves of `moves`.
MainEvents(moves, limit) ==
    \/ \E sq \in squares_of(moves) :
          /\ (~game_over /\ selected_piece # NoPiece /\ InList(sq, valid_moves))
                => << selected_piece.row, selected_piece.col, sq[1], sq[2] >> \in moves
          /\ Click(sq[1], sq[2], limit)
    \/ ClickUndoButton
    \/ KeyU
    \/ KeyR

\* The events taken by promote_pawn().
PromotionEvents ==
    \/ \E choice \in PromotionKeys : PromoteKey(choice)
    \/ \E kind \in OtherEvents : PromoteOtherEvent(kind)

(***************************************************************************)
(* Specifications.  Each one starts from create_board() and lets the       *)
(* players click on the squares of one family of games, for a bounded      *)
(* number of committed moves.                                              *)
(***************************************************************************)

\* King's side openings, every move between these squares: 1.f3 e5 2.g4 Qh4#
\* (checkmate), 1.f3 e5 2.g3 Qh4 3.g4 Qxe1 (the king is taken), 1.f3 e5 2.Kf2
\* Qh4+ (check with escapes).  No pawn gets to the last rank on these
\* squares, so promote_pawn() is never entered.
MaxPlies == 6

KingsideSquares ==
    { << 6, 5 >>, << 5, 5 >>, << 6, 6 >>, << 5, 6 >>, << 4, 6 >>, << 7, 4 >>,
      << 1, 4 >>, << 3, 4 >>, << 0, 3 >>, << 4, 7 >> }

Next == MainEvents(any_move(KingsideSquares), MaxPlies)

Spec == Init /\ [][Next]_vars

\* Castling and promotion: White plays g3, Bg2, Nf3, Nd4 and castles short;
\* Black runs the d-pawn d5, d4, d3, dxe2 and promotes on e1 or f1.
MaxCastlePlies == 10

CastleMoves ==
    { << 6, 6, 5, 6 >>, << 7, 5, 6, 6 >>, << 7, 6, 5, 5 >>, << 5, 5, 4, 3 >>,
      << 7, 4, 7, 6 >>,
      << 1, 3, 3, 3 >>, << 3, 3, 4, 3 >>, << 4, 3, 5, 3 >>, << 5, 3, 6, 4 >>,
      << 6, 4, 7, 4 >>, << 6, 4, 7, 5 >> }

NextCastle == MainEvents(CastleMoves, MaxCastlePlies) \/ PromotionEvents

SpecCastle == Init /\ [][NextCastle]_vars

\* Back rank: White plays e3, e4, Qg4, Qg5, Qxd8; Black plays e6, Bd6, Nh6, Kf8.
MaxBackRankPlies == 9

BackRankMoves ==
    { << 6, 4, 5, 4 >>, << 5, 4, 4, 4 >>, << 7, 3, 4, 6 >>, << 4, 6, 3, 6 >>,
      << 3, 6, 0, 3 >>,
      << 1, 4, 2, 4 >>, << 0, 5, 2, 3 >>, << 0, 6, 2, 7 >>, << 0, 4, 0, 5 >> }

NextBackRank == MainEvents(BackRankMoves, MaxBackRankPlies)

SpecBackRank == Init /\ [][NextBackRank]_vars

\* Centre pawns, every move between these squares: 1.e4 d5 2.exd5, 1.e4 f5
\* 2.e5 d5 (a two-step beside the pawn on e5).
MaxCentrePlies == 4

CentreSquares ==
    { << 6, 4 >>, << 4, 4 >>, << 3, 4 >>, << 1, 3 >>, << 3, 3 >>, << 1, 5 >>,
      << 3, 5 >>, << 2, 3 >>, << 2, 5 >> }

NextCentre == MainEvents(any_move(CentreSquares), MaxCentrePlies)

SpecCentre == Init /\ [][NextCentre]_vars

\* King walk: White plays f3, g3, Bg2, Nf3, Kf2, Kg2 and castles kingside;
\* Black moves a knight out and back.
MaxKingWalkPlies == 7

KingWalkMoves ==
    { << 6, 5, 5, 5 >>, << 6, 6, 5, 6 >>, << 7, 5, 6, 6 >>, << 7, 6, 5, 5 >>,
      << 7, 4, 6, 5 >>, << 6, 5, 6, 6 >>, << 7, 4, 7, 6 >>,
      << 0, 1, 2, 2 >>, << 2, 2, 0, 1 >> }

NextKingWalk == MainEvents(KingWalkMoves, MaxKingWalkPlies)

SpecKingWalk == Init /\ [][NextKingWalk]_vars

\* Edge pawn: White plays f3 or f4, h3, Kf2 and Kg3; Black moves a knight out
\* and back.
MaxEdgePawnPlies == 7

EdgePawnMoves ==
    { << 6, 5, 5, 5 >>, << 6, 5, 4, 5 >>, << 6, 7, 5, 7 >>, << 7, 4, 6, 5 >>,
      << 6, 5, 5, 6 >>, << 0, 1, 2, 2 >>, << 2, 2, 0, 1 >> }

NextEdgePawn == MainEvents(EdgePawnMoves, MaxEdgePawnPlies)

SpecEdgePawn == Init /\ [][NextEdgePawn]_vars

(***************************************************************************)
(* Properties                                                              *)
(***************************************************************************)

has_king(color) ==
    \E row \in RowIdx, col \in ColIdx :
        board[row][col].name = "k" /\ board[row][col].color = color

\* A commit ran to its end in this step: in main(), or after promote_pawn().
commit_completes ==
    \/ pc = "main" /\ pc' = "main" /\ Len(move_stack') = Len(move_stack) + 1
    \/ pc = "promote" /\ pc' = "main"

undo_kinds == {"undo_button", "key_u"}

\* C1: whenever a piece of the side to move is selected, no offered
\* destination, once committed, leaves the mover's own king in check on the
\* resulting board.
C1_OfferedMovesKeepKingSafe ==
    (pc = "main" /\ ~game_over /\ selected_piece # NoPiece) =>
        \A i \in 1 .. Len(valid_moves) :
            \E done \in {apply_move(board, selected_piece, valid_moves[i][1],
                                    valid_moves[i][2], en_passant_target,
                                    << captured_white, captured_black >>)} :
                done.fault \/ ~is_in_check(done.board, turn)

\* C2: in every reachable state both kings are on the board and the game is
\* not won by capturing a king.
C2_BothKingsOnBoard ==
    /\ has_king("w")
    /\ has_king("b")
    /\ ~(game_over /\ check_win_condition(board)[1])

\* C3: a commit pushes exactly the pre-move board, side to move, en-passant
\* target, move history and captured lists; stored frames never change; an
\* undo restores the top frame and pops it; so k commits followed by k undos
\* restore the state before the first of them, and with an empty undo stack
\* the game is in its initial state.
C3_UndoRestoresCommit ==
    [][LET n == Len(move_stack) IN
       /\ Len(move_stack') \in {n - 1, n, n + 1} \/ move_stack' = << >>
       /\ Len(move_stack') = n + 1 =>
             /\ SubSeq(move_stack', 1, n) = move_stack
             /\ move_stack'[n + 1] = << board, turn, en_passant_target,
                                       move_history, captured_white,
                                       captured_black >>
       /\ Len(move_stack') = n => move_stack' = move_stack
       /\ (Len(move_stack') = n - 1 /\ last_event'.kind \in undo_kinds) =>
             /\ move_stack' = SubSeq(move_stack, 1, n - 1)
             /\ << board', turn', en_passant_target', move_history',
                   captured_white', captured_black' >> = move_stack[n]
       /\ move_stack' = << >> =>
             << board', turn', en_passant_target', move_history',
                captured_white', captured_black' >>
               = << create_board, "w", NoTarget, << >>, << >>, << >> >>
      ]_vars

\* C3 witness: an undo has popped a frame that recorded a capture, with
\* earlier frames still stored.
C3_Witness ==
    /\ last_event.kind \in undo_kinds
    /\ Len(move_stack) >= 2
    /\ captured_white # << >>

\* C4: after a commit the en-passant target is the skipped square if the moved
\* piece is a pawn that advanced two rows, and is cleared otherwise.
C4_EnPassantTargetAfterCommit ==
    [][/\ (pc = "main" /\ pc' = "main" /\ Len(move_stack') = Len(move_stack) + 1) =>
             en_passant_target' =
                 IF selected_piece.name = "p"
                    /\ Abs(last_event'.row - selected_piece.row) = 2
                 THEN << (last_event'.row + selected_piece.row) \div 2,
                         last_event'.col >>
                 ELSE NoTarget
       /\ (pc = "promote" /\ pc' = "main") => en_passant_target' = NoTarget
      ]_vars

\* Capture geometry: the piece attacker attacks square << row, col >> of b.
attacks(b, attacker, row, col) ==
    LET dr == row - attacker.row
        dc == col - attacker.col
        clear_line ==
            \A k \in 1 .. 7 :
                (k < Abs(dr) \/ k < Abs(dc)) =>
                    b[attacker.row + k * (IF dr > 0 THEN 1 ELSE IF dr < 0 THEN -1 ELSE 0)]
                     [attacker.col + k * (IF dc > 0 THEN 1 ELSE IF dc < 0 THEN -1 ELSE 0)]
                      = Zero
        straight == (dr = 0) # (dc = 0)
        diagonal == Abs(dr) = Abs(dc) /\ dr # 0
    IN CASE attacker.name = "p" ->
                dr = (IF attacker.color = "w" THEN -1 ELSE 1) /\ Abs(dc) = 1
         [] attacker.name = "n" -> {Abs(dr), Abs(dc)} = {1, 2}
         [] attacker.name = "k" -> Abs(dr) <= 1 /\ Abs(dc) <= 1 /\ << dr, dc >> # << 0, 0 >>
         [] attacker.name = "r" -> straight /\ clear_line
         [] attacker.name = "b" -> diagonal /\ clear_line
         [] attacker.name = "q" -> (straight \/ diagonal) /\ clear_line
         [] OTHER -> FALSE

attacked_by_opponent(b, row, col, color) ==
    \E r \in RowIdx, c \in ColIdx :
        b[r][c] # Zero /\ b[r][c].color # color /\ attacks(b, b[r][c], row, col)

\* C5: a castling destination is offered only when king and rook never moved,
\* the squares between them are empty and no square from the king's square
\* through its destination is attacked by an opposing piece.
C5_CastlingOfferedOnlyWhenSound ==
    (pc = "main" /\ ~game_over /\ selected_piece.name = "k") =>
        \A i \in 1 .. Len(valid_moves) :
            (valid_moves[i][1] = selected_piece.row
             /\ Abs(valid_moves[i][2] - selected_piece.col) = 2) =>
                LET row == selected_piece.row
                    short == valid_moves[i][2] > selected_piece.col
                    rook == board[row][IF short THEN 7 ELSE 0]
                    lo == IF short THEN selected_piece.col ELSE valid_moves[i][2]
                    hi == IF short THEN valid_moves[i][2] ELSE selected_piece.col
                IN /\ ~selected_piece.has_moved
                   /\ rook.name = "r" /\ rook.color = selected_piece.color
                   /\ ~rook.has_moved
                   /\ \A c \in ColIdx :
                        ((short /\ selected_piece.col < c /\ c < 7)
                         \/ (~short /\ 0 < c /\ c < selected_piece.col)) =>
                            board[row][c] = Zero
                   /\ \A c \in lo .. hi :
                        ~attacked_by_opponent(board, row, c, selected_piece.color)

\* C6: with both kings on the board, the game is over by checkmate against
\* the side to move exactly when that side is in check and selecting any of
\* its pieces would offer no destination.
C6_CheckmateIffNoLegalMove ==
    (pc = "main" /\ has_king("w") /\ has_king("b")) =>
        /\ game_over <=>
             /\ is_in_check(board, turn)
             /\ \A row \in RowIdx, col \in ColIdx :
                    (board[row][col] # Zero /\ board[row][col].color = turn) =>
                        first_selection(board[row][col]) = << >>
        /\ game_over => winner = opponent(turn)

\* C7: every commit that completes changes the side to move, and nothing but
\* a completed commit, an undo or a restart changes it.
C7_TurnAlternatesPerCommit ==
    [][/\ commit_completes => turn' = opponent(turn)
       /\ turn' # turn =>
             commit_completes \/ last_event'.kind \in undo_kinds \cup {"key_r"}
      ]_vars

\* C8: while the game is over, a click on any square of the board selects
\* nothing and changes nothing.
C8_TerminalClicksRefused ==
    [][(game_over /\ last_event'.kind = "click") =>
           /\ game_over' /\ winner' = winner
           /\ UNCHANGED << board, turn, en_passant_target, move_history,
                           captured_white, captured_black, move_stack,
                           selected_piece, valid_moves >>
      ]_vars

\* C8 witness: the game is won by checkmate and the last click was on a piece
\* of the side to move, which stayed unselected.
C8_Witness ==
    /\ game_over /\ winner # turn
    /\ last_event.kind = "click"
    /\ board[last_event.row][last_event.col] # Zero
    /\ board[last_event.row][last_event.col].color = turn
    /\ selected_piece = NoPiece

\* C9: when the game is over and the undo stack is not empty, the Undo button
\* and the U key both restore the last frame and make the game ongoing again.
C9_UndoAcceptedWhenOver ==
    [][(game_over /\ move_stack # << >> /\ last_event'.kind \in undo_kinds) =>
           /\ ~game_over' /\ winner' = "None"
           /\ << board', turn', en_passant_target', move_history',
                 captured_white', captured_black' >> = move_stack[Len(move_stack)]
      ]_vars

\* C10: when control is in the main loop no pawn stands on row 0 or row 7,
\* and leaving promote_pawn() replaces the pawn, on its square, by a queen,
\* rook, bishop or knight of the pawn's color and changes no other square.
C10_NoPawnOnLastRank ==
    [][/\ pc' = "main" =>
             \A col \in ColIdx :
                 board'[0][col].name # "p" /\ board'[ROWS - 1][col].name # "p"
       /\ (pc = "promote" /\ pc' # "promote") =>
             /\ board[selected_piece.row][selected_piece.col].name = "p"
             /\ board'[selected_piece.row][selected_piece.col].name \in PromotionKeys
             /\ board'[selected_piece.row][selected_piece.col].color
                   = selected_piece.color
             /\ \A row \in RowIdx, col \in ColIdx :
                    << row, col >> # << selected_piece.row, selected_piece.col >>
                        => board'[row][col] = board[row][col]
      ]_vars

\* C10 witness: a black pawn was promoted on row 7 and the main loop goes on.
C10_Witness ==
    /\ pc = "main"
    /\ last_event.kind \in {"key_q", "key_r", "key_b", "key_n"}
    /\ \E col \in ColIdx :
          /\ board[ROWS - 1][col].color = "b"
          /\ board[ROWS - 1][col].name \in PromotionKeys
          /\ ~board[ROWS - 1][col].has_moved

king_count(color) ==
    Cardinality({sq \in RowIdx \X ColIdx :
                    board[sq[1]][sq[2]].name = "k" /\ board[sq[1]][sq[2]].color = color})

\* The game is over and the last line of the move history is `text`.
ended_with(text) ==
    /\ game_over
    /\ move_history # << >>
    /\ "notice" \in DOMAIN move_history[Len(move_history)]
    /\ move_history[Len(move_history)].notice = text

won_by_capture == ended_with("wins by capturing the king!")

won_by_checkmate == ended_with("wins by Checkmate!")

\* C11: whenever control is in the main loop, exactly one king of each color
\* is on the board, or the game is over and won by capturing the king.
C11_OneKingEachOrWonByCapture ==
    pc = "main" =>
        \/ king_count("w") = 1 /\ king_count("b") = 1
        \/ won_by_capture

\* C11 witness: a king has been captured and the game is won by capture.
C11_Witness ==
    /\ pc = "main"
    /\ king_count("w") = 0
    /\ king_count("b") = 1
    /\ won_by_capture
    /\ winner = "b"

\* C12: the move record appended by a commit holds the mover's side, the kind
\* of the piece moved, the square it stood on before the move and the
\* destination; origin and destination differ.
C12_MoveRecordHoldsOrigin ==
    [][(pc = "main" /\ pc' = "main" /\ Len(move_stack') = Len(move_stack) + 1) =>
           \E record \in {move_history'[Len(move_history) + 1]} :
               /\ record.side = side_name(turn)
               /\ record.kind = upper(selected_piece.name)
               /\ record.from = << selected_piece.row, selected_piece.col >>
               /\ record.to = << last_event'.row, last_event'.col >>
               /\ record.from # record.to
      ]_vars

\* King `king` of board b is unmoved on its home square, its kingside rook is
\* unmoved in the corner, the two squares between them are empty and no
\* opposing piece attacks the king's square or either of the two.
kingside_castling_due(b, king) ==
    LET row == IF king.color = "w" THEN 7 ELSE 0 IN
    /\ king.name = "k" /\ ~king.has_moved /\ king.row = row /\ king.col = 4
    /\ b[row][7].name = "r" /\ b[row][7].color = king.color /\ ~b[row][7].has_moved
    /\ b[row][5] = Zero /\ b[row][6] = Zero
    /\ \A col \in 4 .. 6 : ~attacked_by_opponent(b, row, col, king.color)

\* C13: a selected king for which kingside castling is due is offered column
\* 6 of its row, and committing that destination puts the king on column 6
\* and the rook on column 5, leaving columns 4 and 7 empty.
C13_KingsideCastlingOffered ==
    [][/\ (pc' = "main" /\ ~game_over' /\ selected_piece' # NoPiece
           /\ kingside_castling_due(board', selected_piece')) =>
             InList(<< selected_piece'.row, 6 >>, valid_moves')
       /\ (pc = "main" /\ Len(move_stack') = Len(move_stack) + 1
           /\ kingside_castling_due(board, selected_piece)
           /\ << last_event'.row, last_event'.col >> = << selected_piece.row, 6 >>) =>
             \E row \in {selected_piece.row} :
                 /\ board'[row][6].name = "k"
                 /\ board'[row][6].color = selected_piece.color
                 /\ board'[row][5].name = "r"
                 /\ board'[row][5].color = selected_piece.color
                 /\ board'[row][4] = Zero
                 /\ board'[row][7] = Zero
      ]_vars

\* C13 witness: White has just castled short from a position where the
\* castling was due.
C13_Witness ==
    /\ pc = "main"
    /\ last_event = event("click", 7, 6)
    /\ board[7][6].name = "k" /\ board[7][5].name = "r"
    /\ board[7][4] = Zero /\ board[7][7] = Zero
    /\ move_stack # << >>
    /\ \E b \in {move_stack[Len(move_stack)][1]} : kingside_castling_due(b, b[7][4])

\* The case of C14 does not arise: no en-passant target is ever set (see C4),
\* so no commit lands on one.
EnPassantTargetNeverSet ==
    /\ en_passant_target = NoTarget
    /\ \A i \in 1 .. Len(move_stack) : move_stack[i][3] = NoTarget

\* C15: with a piece selected, a click on a square that is not an offered
\* destination changes nothing but the selection.
C15_RejectedMoveChangesNothing ==
    [][(pc = "main" /\ ~game_over /\ selected_piece # NoPiece
        /\ last_event'.kind = "click"
        /\ ~InList(<< last_event'.row, last_event'.col >>, valid_moves)) =>
           /\ pc' = "main"
           /\ UNCHANGED << board, turn, en_passant_target, move_history,
                           captured_white, captured_black, game_over, winner,
                           move_stack >>
      ]_vars

\* C15 witness: the side to move is not in check and the selected piece
\* shows the filtered list, which differs from its raw move list; only a
\* click that was rejected with another piece selected leads here.
C15_Witness ==
    /\ pc = "main" /\ ~game_over
    /\ selected_piece # NoPiece
    /\ last_event = event("click", selected_piece.row, selected_piece.col)
    /\ ~is_in_check(board, turn)
    /\ valid_moves = legal_moves(selected_piece)
    /\ valid_moves # get_valid_moves(selected_piece, board, en_passant_target)

\* C16: a restart in the main loop gives the starting position, White to
\* move, no en-passant target, empty history, captured lists and undo stack,
\* nothing selected and the game ongoing; an undo with an empty undo stack
\* changes no component of the state.
C16_RestartAndEmptyUndo ==
    [][/\ (pc = "main" /\ last_event'.kind = "key_r") =>
             /\ board' = create_board
             /\ turn' = "w"
             /\ en_passant_target' = NoTarget
             /\ move_history' = << >>
             /\ captured_white' = << >> /\ captured_black' = << >>
             /\ move_stack' = << >>
             /\ selected_piece' = NoPiece /\ valid_moves' = << >>
             /\ ~game_over' /\ winner' = "None"
             /\ pc' = "main"
       /\ (pc = "main" /\ move_stack = << >> /\ last_event'.kind \in undo_kinds) =>
             UNCHANGED game
      ]_vars

\* C16 witness: the U key was pressed with an empty undo stack and a piece
\* selected, and the selection is still there.
C16_Witness ==
    /\ pc = "main"
    /\ last_event.kind = "key_u"
    /\ move_stack = << >>
    /\ selected_piece # NoPiece
    /\ valid_moves # << >>

\* C17: in every state of the main loop whose status is won by checkmate
\* with winner W, the king of the other color is on the board and
\* is_in_check is true for it.
C17_CheckmateImpliesCheck ==
    (pc = "main" /\ won_by_checkmate) =>
        /\ winner \in {"w", "b"}
        /\ has_king(opponent(winner))
        /\ is_in_check(board, opponent(winner))

\* C17 witness: a game won by checkmate.
C17_Witness ==
    /\ pc = "main"
    /\ won_by_checkmate
    /\ winner = "b"
    /\ is_in_check(board, "w")

\* A side is in check and the game is not over: check without checkmate.
CheckWithoutCheckmate ==
    /\ pc = "main"
    /\ ~game_over
    /\ has_king(turn)
    /\ is_in_check(board, turn)

\* The selected piece is a king on its home square and (row, col) is two
\* columns away on the same row.
two_column_king_move(piece, row, col) ==
    /\ piece.name = "k"
    /\ piece.col = 4
    /\ piece.row = (IF piece.color = "w" THEN ROWS - 1 ELSE 0)
    /\ row = piece.row
    /\ Abs(col - 4) = 2

\* C18: a commit of a two-column king move from the home square also moves
\* the rook of that side from the corner to the square the king crossed and
\* leaves king and rook with has_moved set; a commit of any other move
\* changes no square of the board besides the origin and the destination.
C18_RookRelocatedOnlyWhenCastling ==
    [][(pc = "main" /\ pc' = "main" /\ Len(move_stack') = Len(move_stack) + 1) =>
           \E piece \in {selected_piece}, row \in {last_event'.row},
              col \in {last_event'.col} :
              IF two_column_king_move(piece, row, col)
              THEN \E corner \in {IF col = 6 THEN 7 ELSE 0},
                      beside \in {IF col = 6 THEN 5 ELSE 3} :
                      /\ board[row][corner].name = "r"
                      /\ board'[row][corner] = Zero
                      /\ board'[row][beside] =
                             [board[row][corner] EXCEPT !.col = beside,
                                                        !.has_moved = TRUE]
                      /\ board'[row][col].name = "k"
                      /\ board'[row][col].has_moved
              ELSE \A r \in RowIdx, c \in ColIdx :
                      (<< r, c >> # << piece.row, piece.col >> /\ << r, c >> # << row, col >>)
                          => board'[r][c] = board[r][c]
      ]_vars

\* The inputs of the main loop that are no promotion key; key_r is the
\* restart request of the main loop.
undo_and_restart_kinds == {"click", "undo_button", "key_u", "key_r"}

\* C19 as stated: while a commit waits for the promotion choice, a click, an
\* undo request and a restart request change nothing.
C19_UndoAndRestartIgnoredWhilePromoting ==
    [][(pc = "promote" /\ last_event'.kind \in undo_and_restart_kinds) =>
           UNCHANGED game
      ]_vars

promotion_key_kinds == {"key_q", "key_r", "key_b", "key_n"}

\* The move records among the lines of a move history.
move_records(history) == SelectSeq(history, LAMBDA line : "kind" \in DOMAIN line)

\* C19 amended: the step that starts the wait changes neither the turn, the
\* en-passant target, the move history nor the status; while the commit
\* waits, every input but the keys Q, R, B and N changes nothing; a key Q,
\* R, B or N ends the wait, puts the chosen kind on the pawn's square, and
\* then, once, the en-passant target is set, one move record is appended,
\* the status is evaluated and the turn flips, with no new undo frame.
C19_CommitResumesOncePerPromotionKey ==
    [][/\ (pc = "main" /\ pc' = "promote") =>
             /\ move_stack' = Append(move_stack, frame)
             /\ UNCHANGED << turn, en_passant_target, move_history, game_over, winner >>
       /\ (pc = "promote" /\ last_event'.kind \notin promotion_key_kinds) =>
             UNCHANGED game
       /\ (pc = "promote" /\ last_event'.kind \in promotion_key_kinds) =>
             \E row \in {selected_piece.row}, col \in {selected_piece.col} :
                /\ pc' = "main"
                /\ "key_" \o board'[row][col].name = last_event'.kind
                /\ board'[row][col].color = selected_piece.color
                /\ move_stack' = move_stack
                /\ en_passant_target' = NoTarget
                /\ Len(move_records(move_history')) = Len(move_records(move_history)) + 1
                /\ "kind" \in DOMAIN move_history'[Len(move_history) + 1]
                /\ game_over' = (won_by_capture' \/ won_by_checkmate')
                /\ turn' = IF won_by_capture' THEN turn ELSE opponent(turn)
      ]_vars

\* C19 witness: the R key was pressed while a black pawn waited on the last
\* rank, and the commit went on with a rook.
C19_Witness ==
    /\ pc = "main"
    /\ last_event.kind = "key_r"
    /\ turn = "w"
    /\ move_stack # << >>
    /\ \E col \in ColIdx :
          /\ board[ROWS - 1][col].name = "r"
          /\ board[ROWS - 1][col].color = "b"

\* A click was dropped while the commit waited for the promotion choice.
ClickDroppedWhilePromoting ==
    /\ pc = "promote"
    /\ last_event.kind = "click"
    /\ selected_piece.name = "p"

\* C20: no commit of an offered destination ends in a runtime fault.
C20_CommitNeverFaults == pc # "crashed"

\* The fault of the commit's castling handling (line 993 or 1001): the frame
\* was pushed and no move record was written.
FaultInCastlingHandling ==
    /\ pc = "crashed"
    /\ move_history = move_stack[Len(move_stack)][4]

\* The fault of the checkmate search (line 1120 or 1125): the move record
\* and the check notice were written before it.
FaultInCheckmateSearch ==
    /\ pc = "crashed"
    /\ move_history # move_stack[Len(move_stack)][4]

\* The commit of `piece` to (row, col) is an en-passant capture.
en_passant_capture(piece, row, col) ==
    piece.name = "p" /\ << row, col >> = en_passant_target

\* C21: a commit that is neither a two-column king move from the home square
\* nor an en-passant capture empties the origin, puts the moved piece on the
\* destination with has_moved set, and leaves every other square as it was;
\* the promotion choice that ends such a commit changes the pawn's square
\* only.
C21_OrdinaryCommitChangesTwoSquares ==
    [][/\ (pc = "main" /\ pc' \in {"main", "promote"}
              /\ Len(move_stack') = Len(move_stack) + 1) =>
             \E piece \in {selected_piece}, row \in {last_event'.row},
                col \in {last_event'.col} :
                (~two_column_king_move(piece, row, col)
                     /\ ~en_passant_capture(piece, row, col)) =>
                    /\ board'[piece.row][piece.col] = Zero
                    /\ board'[row][col] =
                           [piece EXCEPT !.row = row, !.col = col, !.has_moved = TRUE]
                    /\ \A r \in RowIdx, c \in ColIdx :
                          (<< r, c >> # << piece.row, piece.col >>
                               /\ << r, c >> # << row, col >>)
                              => board'[r][c] = board[r][c]
       /\ (pc = "promote" /\ pc' = "main") =>
             \A r \in RowIdx, c \in ColIdx :
                 << r, c >> # << selected_piece.row, selected_piece.col >>
                     => board'[r][c] = board[r][c]
      ]_vars

\* The number of pieces of `color` on the board.
pieces_on_board(color) ==
    Cardinality({sq \in RowIdx \X ColIdx : board[sq[1]][sq[2]].color = color})

\* The captured list of `color`.
captured_of(color) == IF color = "w" THEN captured_white ELSE captured_black

\* C22: in every state of the main loop and of the promotion wait, for each
\* color the pieces of that color on the board and the entries of that
\* color's captured list are 16 together.
C22_PieceConservation ==
    pc \in {"main", "promote"} =>
        \A color \in {"w", "b"} : pieces_on_board(color) + Len(captured_of(color)) = 16

\* Some piece of the other color than `color`, not a king, could capture a
\* piece of `color` standing on (row, col) of board b.
capturable_by_non_king(b, row, col, color) ==
    \E r \in RowIdx, c \in ColIdx :
        /\ b[r][c] # Zero
        /\ b[r][c].color = opponent(color)
        /\ b[r][c].name # "k"
        /\ attacks(b, b[r][c], row, col)

\* The home row of `color`.
home_row(color) == IF color = "w" THEN ROWS - 1 ELSE 0

\* C23: on every board of the main loop, for the squares the castling tests
\* ask about (columns 2 to 6 of a side's home row) that are empty or hold a
\* piece of that side, is_square_under_attack is true exactly when some
\* opposing non-king piece could capture a piece of that side standing
\* there.
C23_OracleAgreesWithCaptureGeometry ==
    pc = "main" =>
        \A color \in {"w", "b"}, col \in 2 .. 6 :
            \E row \in {home_row(color)} :
                (board[row][col] = Zero \/ board[row][col].color = color) =>
                    (is_square_under_attack(board, << row, col >>, color)
                        <=> capturable_by_non_king(board, row, col, color))

\* On every board of the main loop with the king of the side to move on it,
\* is_in_check is true exactly when some opposing non-king piece could
\* capture that king.
IsInCheckAgreesWithCaptureGeometry ==
    pc = "main" =>
        \A r \in RowIdx, c \in ColIdx :
            (board[r][c].name = "k" /\ king_count(board[r][c].color) = 1) =>
                (is_in_check(board, board[r][c].color)
                    <=> capturable_by_non_king(board, r, c, board[r][c].color))

\* An empty square of White's home row that no black piece could capture on
\* is reported as attacked.
PawnPushCountedAsAttack ==
    /\ pc = "main"
    /\ \E col \in 2 .. 6 :
          /\ board[ROWS - 1][col] = Zero
          /\ is_square_under_attack(board, << ROWS - 1, col >>, "w")
          /\ ~capturable_by_non_king(board, ROWS - 1, col, "w")

\* An empty square of White's home row that a black pawn could capture on is
\* reported as not attacked.
PawnDiagonalNotCountedAsAttack ==
    /\ pc = "main"
    /\ \E col \in 2 .. 6 :
          /\ board[ROWS - 1][col] = Zero
          /\ ~is_square_under_attack(board, << ROWS - 1, col >>, "w")
          /\ capturable_by_non_king(board, ROWS - 1, col, "w")

\* Every piece stored on board b at (r, c) has row = r and col = c.
coordinates_consistent(b) ==
    \A r \in RowIdx, c \in ColIdx :
        b[r][c] # Zero => (b[r][c].row = r /\ b[r][c].col = c)

\* C24: in the main loop and in the promotion wait, each piece stored at
\* board[r][c] has row = r and col = c (so none stands on two squares), on
\* the board and on every board saved for undo; and a selected piece, whose
\* moves were just generated, is the piece of the board at its own row and
\* col.
C24_GridCoordinatesConsistent ==
    pc \in {"main", "promote"} =>
        /\ coordinates_consistent(board)
        /\ \A i \in 1 .. Len(move_stack) : coordinates_consistent(move_stack[i][1])
        /\ (pc = "main" /\ selected_piece # NoPiece) =>
               board[selected_piece.row][selected_piece.col] = selected_piece

\* C24 witness: the white king has castled, the rook stands beside it, and
\* the king is selected again with its moves generated.
C24_Witness ==
    /\ pc = "main"
    /\ selected_piece.name = "k"
    /\ selected_piece.color = "w"
    /\ << selected_piece.row, selected_piece.col >> = << ROWS - 1, 6 >>
    /\ valid_moves # << >>
    /\ board[ROWS - 1][5].name = "r"
    /\ board[ROWS - 1][6] = selected_piece

====
